---- MODULE Spec2Model ----
(***************************************************************************)
(* Model of main.py: the GDELT export downloader.  One run of main() is a  *)
(* sequential process whose position is pc; the downloads directory fs     *)
(* outlives the run, so a behaviour is a sequence of runs over one         *)
(* directory.                                                              *)
(*                                                                         *)
(* A file name is the sequence of its '.'-separated components             *)
(* ("export.part" is <<"export", "part">>, the empty segment of a URL that *)
(* ends in '/' is <<"">>); a URL and an archive member name are sequences  *)
(* of '/'-separated segments, each such a name.  pathlib and glob follow   *)
(* their POSIX behaviour (matching is case-sensitive).                     *)
(***************************************************************************)
EXTENDS Integers, Sequences, FiniteSets, TLC

VARIABLES
    pc,         \* position of the run inside main()
    args,       \* parse_args(): max_items, dry_run, cleanup
    links,      \* list_export_links(): the discovered links
    i,          \* index into links of the for loop (line 129)
    processed,  \* the processed counter (line 127)
    fs,         \* the downloads directory: existing name -> content
    fs0,        \* the directory when the last download_file call began
    dl,         \* outcome of the last download_file call
    todo,       \* archive members still to extract (line 144)
    sweep,      \* CSV files of the glob still to upload (line 155)
    ups,        \* gsutil_cp calls made for the current link
    net,        \* indices of the links an HTTP transfer was started for
    unlinkErr,  \* an unlink raised inside the last download_file call
    hist,       \* how the handling of each past link of the run ended
    soup        \* list_export_links: the page's anchors and the next one

vars ==
    <<pc, args, links, i, processed, fs, fs0, dl, todo, sweep, ups, net,
      unlinkErr, hist, soup>>

---------------------------------------------------------------------------
(* Bounds of the model *)

\* longest index page (number of export links)
MaxLinks == 2
\* most anchors on an index page that is scanned anchor by anchor
MaxAnchors == 3
\* largest --max-items value tried
MaxCap == 1

---------------------------------------------------------------------------
(* Names, URLs and archives *)

\* ".../20230101.export.CSV.zip", the shape of a real GDELT link
ZipName == <<"20230101", "export", "CSV", "zip">>
\* ".../export.part", a link whose extension is the temp-file extension
PartName == <<"export", "part">>
\* ".../export/", a link whose final path segment is empty
EmptyName == <<"">>

Prefix == << <<"http:">>, <<"">>, <<"data", "gdeltproject", "org">>, <<"events">> >>

ZipUrl == Prefix \o <<ZipName>>
PartUrl == Prefix \o <<PartName>>
DirUrl == Prefix \o << <<"export">>, EmptyName >>
\* ".../20230102.export.CSV.zip", the archive of another day
Zip2Name == <<"20230102", "export", "CSV", "zip">>
Zip2Url == Prefix \o <<Zip2Name>>

Urls == {ZipUrl, PartUrl, DirUrl}

\* str.lower() on one component
Lower(s) ==
    CASE s = "CSV" -> "csv"
      [] s = "ZIP" -> "zip"
      [] OTHER -> s

\* PurePath.suffix: the text after the last dot, unless the dot is first or last
HasSuffix(n) ==
    /\ Len(n) >= 2
    /\ n[Len(n)] # ""
    /\ ~(Len(n) = 2 /\ n[1] = "")

Suffix(n) == IF HasSuffix(n) THEN n[Len(n)] ELSE ""

\* Path.with_suffix(".part") replaces the last extension only
WithSuffixPart(n) ==
    IF HasSuffix(n) THEN SubSeq(n, 1, Len(n) - 1) \o <<"part">> ELSE n \o <<"part">>

\* url.split("/")[-1]
LocalName(url) == url[Len(url)]

\* dest.with_suffix(".part")
TmpName(n) == WithSuffixPart(n)

\* dest_dir / "" is dest_dir itself, which exists and is a directory
IsDir(n) == n = EmptyName

Exists(dir, n) == IsDir(n) \/ n \in DOMAIN dir

\* local.suffix.lower() == '.zip'
IsZip(n) == ~IsDir(n) /\ Lower(Suffix(n)) = "zip"

\* m.lower().endswith('.csv') on a member name
IsCsvMemberExact(m) ==
    LET n == m[Len(m)]
    IN  Len(n) >= 2 /\ n[Len(n)] = "csv"

IsCsvMember(m) ==
    LET n == m[Len(m)]
    IN  Len(n) >= 2 /\ Lower(n[Len(n)]) = "csv"

\* Path(member).name
BaseName(m) == m[Len(m)]

\* The archives a server may send for a zip link: a valid archive (the
\* members of the example: a/b/file1.csv, file2.CSV, notes.txt), an
\* archive whose second CSV member fails its CRC check while it is read,
\* and bytes that are no zip archive at all.
Members ==
    << << <<"a">>, <<"b">>, <<"file1", "csv">> >>,
       << <<"file2", "CSV">> >>,
       << <<"notes", "txt">> >> >>

ZipBodies == {"zip_valid", "zip_badmember", "zip_truncated"}

\* The members of the other day's archive, a valid zip without any CSV
NoCsvMembers == << << <<"readme", "txt">> >> >>

\* zf.namelist() (line 141) of an archive that opens
MembersOf(content) == IF content = "zip_nocsv" THEN NoCsvMembers ELSE Members

\* The response bodies a transfer of url may carry
Bodies(url) ==
    IF ~IsZip(LocalName(url)) THEN {"data"}
    ELSE IF url = Zip2Url THEN {"zip_nocsv"}
    ELSE ZipBodies

OpensAnything(content) == FALSE

\* zipfile.ZipFile(local) raises BadZipFile
BadOnOpen(content) == content \notin {"zip_valid", "zip_badmember", "zip_nocsv"}

\* reading the member raises BadZipFile
BadMember(content, m) == content = "zip_badmember" /\ m = Members[2]

\* zf.namelist() filtered by the '.csv' test (line 141)
CsvMembers == SelectSeq(Members, IsCsvMember)

\* line 141 for the archive held by a file
CsvMembersOf(content) == SelectSeq(MembersOf(content), IsCsvMember)

\* downloads.glob('*.csv'): names ending in ".csv", case-sensitively
GlobCsv(dir) == {n \in DOMAIN dir : Len(n) >= 2 /\ n[Len(n)] = "csv"}

---------------------------------------------------------------------------
(* The directory as a function *)

Put(dir, n, c) == [x \in DOMAIN dir \cup {n} |-> IF x = n THEN c ELSE dir[x]]

Remove(dir, n) == [x \in DOMAIN dir \ {n} |-> dir[x]]

EmptyDir == [x \in {} |-> ""]

---------------------------------------------------------------------------
(* gsutil_cp *)

\* What the execution path holds when gsutil_cp runs: the tool, nothing,
\* or a tool that shutil.which finds and subprocess.run then fails to start
ToolStates == {"present", "missing", "vanished"}

GsutilCpLookupFirst(path, dry_run, tool, exitcode) ==
    [ file |-> path,
      recursive |-> IsDir(path),
      printed |-> TRUE,
      tool |-> tool,
      looked |-> TRUE,
      ran |-> ~dry_run /\ tool = "present",
      rc |-> IF tool = "missing" THEN 2
             ELSE IF dry_run THEN 0
             ELSE IF tool = "present" THEN exitcode
             ELSE 2 ]

\* lines 81-101: the command is printed, then dry-run returns 0; otherwise
\* the tool is looked up (2 when missing) and run (its exit status, or 2
\* when starting it raises FileNotFoundError)
GsutilCp(path, dry_run, tool, exitcode) ==
    [ file |-> path,
      recursive |-> IsDir(path),
      printed |-> TRUE,
      tool |-> tool,
      looked |-> ~dry_run,
      ran |-> ~dry_run /\ tool = "present",
      rc |-> IF dry_run THEN 0
             ELSE IF tool = "present" THEN exitcode
             ELSE 2 ]

---------------------------------------------------------------------------
(* main(): start of a run *)

LinkLists == UNION {[1..n -> Urls] : n \in 0..MaxLinks}

ArgSets == [max_items : 0..MaxCap, dry_run : BOOLEAN, cleanup : BOOLEAN]

NoArgs == [max_items |-> 0, dry_run |-> FALSE, cleanup |-> FALSE]

\* no page is being scanned
NoSoup == [anchors |-> <<>>, at |-> 1]

\* main() has returned or raised
Stopped == {"done", "interrupted", "crashed"}

\* the positions inside the try block of the loop (lines 128-173)
InLoop == {"loop", "open", "copy", "rename", "fetched", "extract",
           "extracting", "sweep"}

\* the positions at which links[i] is being handled
Handling == InLoop \ {"loop"}

Init ==
    /\ pc = "idle"
    /\ args = NoArgs
    /\ links = <<>>
    /\ i = 1
    /\ processed = 0
    /\ fs = EmptyDir
    /\ fs0 = EmptyDir
    /\ dl = "none"
    /\ todo = <<>>
    /\ sweep = {}
    /\ ups = {}
    /\ net = {}
    /\ unlinkErr = FALSE
    /\ hist = <<>>
    /\ soup = NoSoup

\* The variables a run starts with (lines 116-127)
Fresh(a, ls) ==
    /\ args' = a
    /\ links' = ls
    /\ i' = 1
    /\ processed' = 0
    /\ fs0' = fs
    /\ dl' = "none"
    /\ todo' = <<>>
    /\ sweep' = {}
    /\ ups' = {}
    /\ net' = {}
    /\ unlinkErr' = FALSE
    /\ hist' = <<>>
    /\ UNCHANGED <<fs, soup>>

\* lines 116-127: the index page is fetched and holds the links ls;
\* an empty list returns 0 at once
StartRun ==
    /\ pc = "idle"
    /\ \E a \in ArgSets, ls \in LinkLists :
          /\ Fresh(a, ls)
          /\ pc' = IF ls = <<>> THEN "done" ELSE "loop"

\* lines 121, 27-28: session.get or raise_for_status raises inside
\* list_export_links, which main() calls outside any try block
IndexFetchFails ==
    /\ pc = "idle"
    /\ \E a \in ArgSets : Fresh(a, <<>>)
    /\ pc' = "crashed"

\* line 182: the process ends; only the downloads directory is left for
\* the next invocation
ProcessExit ==
    /\ pc \in Stopped
    /\ Fresh(NoArgs, <<>>)
    /\ pc' = "idle"

\* the process's exit status: return 0 (line 178), or the interpreter's 1
\* for an uncaught exception
ExitStatus == IF pc = "crashed" THEN 1 ELSE 0

---------------------------------------------------------------------------
(* main(): the loop *)

url == links[i]
local == LocalName(url)
tmp == TmpName(local)

CapReachedOffByOne == args.max_items > 0 /\ processed > args.max_items

\* line 130: the cap test at the top of each iteration
CapReached == args.max_items > 0 /\ processed >= args.max_items

\* the for loop ends (line 129) or breaks (line 131); return 0
LoopExit ==
    /\ pc = "loop"
    /\ i > Len(links) \/ CapReached
    /\ pc' = "done"
    /\ UNCHANGED <<soup, args, links, i, processed, fs, fs0, dl, todo, sweep, ups,
                   net, unlinkErr, hist>>

GiveUpCounted(how) ==
    /\ pc' = "loop"
    /\ i' = i + 1
    /\ hist' = Append(hist, how)
    /\ processed' = processed + 1
    /\ UNCHANGED <<soup, args, links, fs0, todo, sweep, ups, net>>

\* an exception reaches line 170 (or the continue of line 153): the link
\* is given up, the counter is untouched, the loop goes on
GiveUp(how) ==
    /\ pc' = "loop"
    /\ i' = i + 1
    /\ hist' = Append(hist, how)
    /\ UNCHANGED <<soup, args, links, processed, fs0, todo, sweep, ups, net>>

DiscardNothing(dir, ok) == dir

\* lines 46-51 and 61-65: the temp file is removed if it is there and the
\* unlink does not raise
Discard(dir, ok) == IF tmp \in DOMAIN dir /\ ok THEN Remove(dir, tmp) ELSE dir

\* an unlink of the temp file was tried and raised
Raised(dir, ok) == tmp \in DOMAIN dir /\ ~ok

---------------------------------------------------------------------------
(* download_file *)

NeverThere == FALSE

\* line 42: the final file is already there
AlreadyThere == Exists(fs, local)

\* lines 40-43: the final file exists; it is returned without a transfer
DownloadSkip ==
    /\ pc = "loop"
    /\ i <= Len(links) /\ ~CapReached
    /\ AlreadyThere
    /\ pc' = "fetched"
    /\ fs0' = fs
    /\ dl' = "skipped"
    /\ ups' = {}
    /\ unlinkErr' = FALSE
    /\ UNCHANGED <<soup, args, links, i, processed, fs, todo, sweep, net, hist>>

\* lines 44-54: a leftover temp file is removed (a failing unlink is
\* swallowed), then the GET is sent; it answers with a success status, or
\* session.get / raise_for_status raises before anything is written
DownloadBegin ==
    /\ pc = "loop"
    /\ i <= Len(links) /\ ~CapReached
    /\ ~AlreadyThere
    /\ fs0' = fs
    /\ ups' = {}
    /\ net' = net \cup {i}
    /\ \E ok \in BOOLEAN :
          /\ fs' = Discard(fs, ok)
          /\ unlinkErr' = Raised(fs, ok)
    /\ \/ /\ pc' = "open"
          /\ dl' = "running"
          /\ UNCHANGED <<i, hist>>
       \/ /\ pc' = "loop"
          /\ dl' = "failed"
          /\ i' = i + 1
          /\ hist' = Append(hist, "fetch_failed")
    /\ UNCHANGED <<soup, args, links, processed, todo, sweep>>

\* lines 59-66: an exception inside the try block; the handler removes the
\* temp file if it can and re-raises, and main() gives the link up
DownloadRaise ==
    /\ \E ok \in BOOLEAN :
          /\ fs' = Discard(fs, ok)
          /\ unlinkErr' = (unlinkErr \/ Raised(fs, ok))
    /\ dl' = "failed"
    /\ GiveUp("fetch_failed")

\* line 56: open(tmp, "wb") creates the temp file, or truncates the one an
\* unlink could not remove; or it raises
DownloadOpen ==
    /\ pc = "open"
    /\ \/ /\ fs' = Put(fs, tmp, "partial")
          /\ pc' = "copy"
          /\ UNCHANGED <<soup, args, links, i, processed, fs0, dl, todo, sweep,
                         ups, net, unlinkErr, hist>>
       \/ DownloadRaise

\* line 57: copyfileobj writes the whole body and the file is closed, or a
\* read or a write raises part-way
DownloadCopy ==
    /\ pc = "copy"
    /\ \/ /\ \E body \in Bodies(url) : fs' = Put(fs, tmp, body)
          /\ pc' = "rename"
          /\ UNCHANGED <<soup, args, links, i, processed, fs0, dl, todo, sweep,
                         ups, net, unlinkErr, hist>>
       \/ DownloadRaise

\* line 58: tmp.rename(dest) moves the temp file onto the final name in
\* one step, or raises
DownloadRename ==
    /\ pc = "rename"
    /\ \/ /\ fs' = Put(Remove(fs, tmp), local, fs[tmp])
          /\ pc' = "fetched"
          /\ dl' = "done"
          /\ UNCHANGED <<soup, args, links, i, processed, fs0, todo, sweep, ups,
                         net, unlinkErr, hist>>
       \/ DownloadRaise

---------------------------------------------------------------------------
(* main(): extraction, uploads, cleanup *)

HandledWhenUploaded ==
    /\ processed' = IF \A u \in ups' : u.rc = 0 THEN processed + 1 ELSE processed
    /\ i' = i + 1
    /\ hist' = Append(hist, "ok")
    /\ pc' = "loop"

\* line 169 and the next iteration: the link is handled
Handled ==
    /\ processed' = processed + 1
    /\ i' = i + 1
    /\ hist' = Append(hist, "ok")
    /\ pc' = "loop"

\* proc.returncode (line 101): the tool's own exit status, which is the
\* tool's to choose
ExitCodes == {0, 1, 2}

\* the gsutil_cp calls the environment allows for one path
Calls(path) ==
    {GsutilCp(path, args.dry_run, tool, exitcode) :
        tool \in ToolStates, exitcode \in ExitCodes}

\* lines 165-169: a file that is no zip is uploaded as it is (with -r when
\* the path is the directory), whatever gsutil_cp returns
UploadDirect ==
    /\ pc = "fetched"
    /\ ~IsZip(local)
    /\ \E call \in Calls(local) : ups' = ups \cup {call}
    /\ Handled
    /\ UNCHANGED <<soup, args, links, fs, fs0, dl, todo, sweep, net, unlinkErr>>

\* lines 140-143: the archive opens and its CSV members are listed
ZipOpen ==
    /\ pc = "fetched"
    /\ IsZip(local)
    /\ ~BadOnOpen(fs[local])
    /\ todo' = CsvMembersOf(fs[local])
    /\ IF CsvMembersOf(fs[local]) = <<>>
         THEN pc' = "sweep" /\ sweep' = GlobCsv(fs)
         ELSE pc' = "extract" /\ UNCHANGED sweep
    /\ UNCHANGED <<soup, args, links, i, processed, fs, fs0, dl, ups, net,
                   unlinkErr, hist>>

\* lines 140, 151-153: zipfile.ZipFile raises BadZipFile; continue
ZipOpenBad ==
    /\ pc = "fetched"
    /\ IsZip(local)
    /\ BadOnOpen(fs[local])
    /\ GiveUp("corrupt")
    /\ UNCHANGED <<fs, dl, unlinkErr>>

\* line 149: the member and the target are opened, which truncates the
\* target; or opening the target raises (line 170)
ExtractOpen ==
    /\ pc = "extract"
    /\ \/ /\ fs' = Put(fs, BaseName(Head(todo)), "partial")
          /\ pc' = "extracting"
          /\ UNCHANGED <<soup, args, links, i, processed, fs0, dl, todo, sweep,
                         ups, net, unlinkErr, hist>>
       \/ /\ GiveUp("error")
          /\ UNCHANGED <<fs, dl, unlinkErr>>

\* line 150: the member is copied out.  A corrupt member raises BadZipFile
\* (line 151) and a failing write raises OSError (line 170), both leaving
\* the target as far as it was written.  After the last member the glob
\* of line 155 lists the directory.
ExtractCopy ==
    /\ pc = "extracting"
    /\ \/ /\ ~BadMember(fs[local], Head(todo))
          /\ fs' = Put(fs, BaseName(Head(todo)), "csv_data")
          /\ todo' = Tail(todo)
          /\ IF Tail(todo) = <<>>
               THEN pc' = "sweep" /\ sweep' = GlobCsv(fs')
               ELSE pc' = "extract" /\ UNCHANGED sweep
          /\ UNCHANGED <<soup, args, links, i, processed, fs0, dl, ups, net,
                         unlinkErr, hist>>
       \/ /\ BadMember(fs[local], Head(todo))
          /\ GiveUp("corrupt")
          /\ UNCHANGED <<fs, dl, unlinkErr>>
       \/ /\ GiveUp("error")
          /\ UNCHANGED <<fs, dl, unlinkErr>>

\* lines 155-158: the next CSV file of the glob is uploaded; a non-zero
\* status is only printed
UploadCsv ==
    /\ pc = "sweep"
    /\ \E csvfile \in sweep :
          /\ \E call \in Calls(csvfile) : ups' = ups \cup {call}
          /\ sweep' = sweep \ {csvfile}
    /\ UNCHANGED <<soup, pc, args, links, i, processed, fs, fs0, dl, todo, net,
                   unlinkErr, hist>>

\* lines 160-164: with --cleanup the zip is unlinked; a failing unlink is
\* only printed
Cleanup(dir, ok) ==
    IF args.cleanup /\ ok /\ local \in DOMAIN dir THEN Remove(dir, local) ELSE dir

\* lines 159-169: after the last upload the zip is cleaned up and the
\* link counts as processed
Finish ==
    /\ pc = "sweep"
    /\ sweep = {}
    /\ \E ok \in BOOLEAN : fs' = Cleanup(fs, ok)
    /\ Handled
    /\ UNCHANGED <<soup, args, links, fs0, dl, todo, sweep, ups, net, unlinkErr>>

InterruptDiscards ==
    /\ pc \in InLoop
    /\ pc' = "interrupted"
    /\ fs' = IF pc \in {"copy", "rename"} THEN Remove(fs, tmp) ELSE fs
    /\ UNCHANGED <<soup, args, links, i, processed, fs0, dl, todo, sweep, ups,
                   net, unlinkErr, hist>>

\* lines 174-178: KeyboardInterrupt anywhere inside the loop leaves it;
\* nothing is undone and main() returns 0
Interrupt ==
    /\ pc \in InLoop
    /\ pc' = "interrupted"
    /\ UNCHANGED <<soup, args, links, i, processed, fs, fs0, dl, todo, sweep, ups,
                   net, unlinkErr, hist>>

Next ==
    \/ StartRun
    \/ IndexFetchFails
    \/ ProcessExit
    \/ LoopExit
    \/ DownloadSkip
    \/ DownloadBegin
    \/ DownloadOpen
    \/ DownloadCopy
    \/ DownloadRename
    \/ UploadDirect
    \/ ZipOpen
    \/ ZipOpenBad
    \/ ExtractOpen
    \/ ExtractCopy
    \/ UploadCsv
    \/ Finish
    \/ Interrupt

Spec == Init /\ [][Next]_vars

---------------------------------------------------------------------------
(* Runs over an index page that links two days' archives *)

ZipUrls == {ZipUrl, Zip2Url}

ZipLinkLists == UNION {[1..n -> ZipUrls] : n \in 0..MaxLinks}

\* lines 116-127, as StartRun, for an index page of zip links
StartRunZips ==
    /\ pc = "idle"
    /\ \E a \in ArgSets, ls \in ZipLinkLists :
          /\ Fresh(a, ls)
          /\ pc' = IF ls = <<>> THEN "done" ELSE "loop"

NextZips ==
    \/ StartRunZips
    \/ IndexFetchFails
    \/ ProcessExit
    \/ LoopExit
    \/ DownloadSkip
    \/ DownloadBegin
    \/ DownloadOpen
    \/ DownloadCopy
    \/ DownloadRename
    \/ ZipOpen
    \/ ZipOpenBad
    \/ ExtractOpen
    \/ ExtractCopy
    \/ UploadCsv
    \/ Finish
    \/ Interrupt

SpecZips == Init /\ [][NextZips]_vars

---------------------------------------------------------------------------
(* list_export_links, character by character *)

\* here a string is the sequence of its characters
BASE_URL ==
    <<"h", "t", "t", "p", ":", "/", "/", "d", "a", "t", "a", ".", "g", "d",
      "e", "l", "t", "p", "r", "o", "j", "e", "c", "t", ".", "o", "r", "g",
      "/", "e", "v", "e", "n", "t", "s", "/", "i", "n", "d", "e", "x", ".",
      "h", "t", "m", "l">>

\* hrefs an index page may carry: a relative name, one in capitals, a rooted
\* path with a capital, an absolute URL, and two without the word
\* a.export.zip
HrefZip ==
    <<"a", ".", "e", "x", "p", "o", "r", "t", ".", "z", "i", "p">>
\* EXPORT.CSV
HrefUpper ==
    <<"E", "X", "P", "O", "R", "T", ".", "C", "S", "V">>
\* /x/Export
HrefRooted ==
    <<"/", "x", "/", "E", "x", "p", "o", "r", "t">>
\* http://h/export/
HrefAbsolute ==
    <<"h", "t", "t", "p", ":", "/", "/", "h", "/", "e", "x", "p", "o", "r",
      "t", "/">>
\* index.html
HrefIndex ==
    <<"i", "n", "d", "e", "x", ".", "h", "t", "m", "l">>
\* exprt.zip
HrefNearMiss ==
    <<"e", "x", "p", "r", "t", ".", "z", "i", "p">>

Hrefs == {HrefZip, HrefUpper, HrefRooted, HrefAbsolute, HrefIndex, HrefNearMiss}

RECURSIVE SeqsUpTo(_, _)
SeqsUpTo(S, n) ==
    IF n = 0 THEN {<<>>}
    ELSE LET shorter == SeqsUpTo(S, n - 1)
         IN  shorter \cup {Append(q, x) : q \in {r \in shorter : Len(r) = n - 1}, x \in S}

\* the anchor lists of the pages scanned
Pages == SeqsUpTo(Hrefs, MaxAnchors)

UpperCase ==
    <<"A", "B", "C", "D", "E", "F", "G", "H", "I", "J", "K", "L", "M",
      "N", "O", "P", "Q", "R", "S", "T", "U", "V", "W", "X", "Y", "Z">>
LowerCase ==
    <<"a", "b", "c", "d", "e", "f", "g", "h", "i", "j", "k", "l", "m",
      "n", "o", "p", "q", "r", "s", "t", "u", "v", "w", "x", "y", "z">>

\* str.lower on one character and on a string
LowerChar(c) ==
    IF \E k \in 1..26 : UpperCase[k] = c
    THEN LowerCase[CHOOSE k \in 1..26 : UpperCase[k] = c]
    ELSE c
LowerStr(s) == [k \in 1..Len(s) |-> LowerChar(s[k])]

\* sub in s
Contains(s, sub) ==
    \E k \in 0..(Len(s) - Len(sub)) : SubSeq(s, k + 1, k + Len(sub)) = sub

Export == <<"e", "x", "p", "o", "r", "t">>

ContainsExportExact(href) == Contains(href, Export)

\* "export" in href.lower()
ContainsExport(href) == Contains(LowerStr(href), Export)

\* the first position of character c in s at or after position from
FirstAt(s, c, from) ==
    CHOOSE k \in from..Len(s) : s[k] = c /\ \A j \in from..(k - 1) : s[j] # c
Has(s, c, from) == \E k \in from..Len(s) : s[k] = c
LastAt(s, c) == CHOOSE k \in 1..Len(s) : s[k] = c /\ \A j \in (k + 1)..Len(s) : s[j] # c

\* a reference with its own scheme: a colon before any slash
HasScheme(href) ==
    /\ Has(href, ":", 2)
    /\ \A j \in 1..FirstAt(href, ":", 2) : href[j] # "/"

\* scheme://host of the base, and the base up to its last slash
Origin(base) ==
    SubSeq(base, 1, FirstAt(base, "/", FirstAt(base, ":", 1) + 3) - 1)
Directory(base) == SubSeq(base, 1, LastAt(base, "/"))

\* urljoin for references without query, fragment or dot segments: one with
\* a scheme stands as it is, a rooted path replaces the base's path, any
\* other replaces the base's last segment
UrlJoin(base, href) ==
    IF href = <<>> THEN base
    ELSE IF HasScheme(href) THEN href
    ELSE IF href[1] = "/" THEN Origin(base) \o href
    ELSE Directory(base) \o href

\* the page before its first anchor is looked at
InitLinks ==
    /\ pc = "listing"
    /\ soup \in {[anchors |-> p, at |-> 1] : p \in Pages}
    /\ args = NoArgs
    /\ links = <<>>
    /\ i = 1
    /\ processed = 0
    /\ fs \in {EmptyDir}
    /\ fs0 = fs
    /\ dl = "none"
    /\ todo = <<>>
    /\ sweep = <<>>
    /\ ups = {}
    /\ net = {}
    /\ unlinkErr = FALSE
    /\ hist = <<>>

href == soup.anchors[soup.at]
full == UrlJoin(BASE_URL, href)

\* one turn of the loop over the anchors
ScanAnchor ==
    /\ pc = "listing"
    /\ soup.at <= Len(soup.anchors)
    /\ links' = IF ContainsExport(href) THEN Append(links, full) ELSE links
    /\ soup' = [soup EXCEPT !.at = @ + 1]
    /\ UNCHANGED <<pc, args, i, processed, fs, fs0, dl, todo, sweep, ups, net,
                   unlinkErr, hist>>

\* the list is returned; main stops with status 0 when it is empty
ReturnLinks ==
    /\ pc = "listing"
    /\ soup.at > Len(soup.anchors)
    /\ pc' = IF links = <<>> THEN "done" ELSE "loop"
    /\ UNCHANGED <<soup, args, links, i, processed, fs, fs0, dl, todo, sweep,
                   ups, net, unlinkErr, hist>>

NextLinks ==
    \/ ScanAnchor
    \/ ReturnLinks

SpecLinks == InitLinks /\ [][NextLinks]_vars

---------------------------------------------------------------------------
(* the destination gsutil_cp hands to the tool *)

\* here a string is a sequence of pieces, each a slash or a run without one
Slash == "/"

Buckets ==
    {<<"gs:", Slash, Slash, "bucket">>,
     <<"gs:", Slash, Slash, "bucket", Slash>>,
     <<"gs:", Slash, Slash, "bucket", Slash, Slash>>,
     <<"gs:", Slash, Slash, "bucket", Slash, "path">>,
     <<"gs:", Slash, Slash, "bucket", Slash, "path", Slash>>}

DestPrefixes ==
    {<<>>,
     <<"data">>,
     <<"data", Slash>>,
     <<"data", Slash, Slash>>,
     <<"data", Slash, "sub">>,
     <<Slash>>}

\* local_path.name of the files handed over
LocalFiles == {"file1.csv", "export.zip", "export"}

\* str.rstrip('/')
RECURSIVE RStrip(_)
RStrip(s) ==
    IF s # <<>> /\ s[Len(s)] = Slash THEN RStrip(SubSeq(s, 1, Len(s) - 1)) ELSE s

EndsWithSlash(s) == s # <<>> /\ s[Len(s)] = Slash

\* lines 71-75: the bucket loses its trailing slashes, a prefix that does
\* not end in a slash gains one
DestName(name, bucket, dest_prefix) ==
    LET prefix == IF dest_prefix # <<>> /\ ~EndsWithSlash(dest_prefix)
                  THEN Append(dest_prefix, Slash)
                  ELSE dest_prefix
    IN  RStrip(bucket) \o <<Slash>> \o prefix \o <<name>>

DestArgs == [bucket : Buckets, dest_prefix : DestPrefixes]

InitDest ==
    /\ pc = "cp"
    /\ args \in DestArgs
    /\ soup = NoSoup
    /\ links = <<>>
    /\ i = 1
    /\ processed = 0
    /\ fs \in {EmptyDir}
    /\ fs0 = fs
    /\ dl = "none"
    /\ todo = <<>>
    /\ sweep = <<>>
    /\ ups = {}
    /\ net = {}
    /\ unlinkErr = FALSE
    /\ hist = <<>>

\* gsutil_cp builds and prints the command for one local file
BuildCommand ==
    /\ pc = "cp"
    /\ \E name \in LocalFiles :
          ups' = {[file |-> name,
                   dest |-> DestName(name, args.bucket, args.dest_prefix),
                   printed |-> TRUE]}
    /\ pc' = "done"
    /\ UNCHANGED <<soup, args, links, i, processed, fs, fs0, dl, todo, sweep,
                   net, unlinkErr, hist>>

NextDest == BuildCommand

SpecDest == InitDest /\ [][NextDest]_vars

---------------------------------------------------------------------------
(* Properties *)

\* the link whose handling ended last, its final name and its temp name
prev == LocalName(links[i - 1])
prevTmp == TmpName(prev)

\* the links download_file has been called for
Attempted == IF pc \in Handling THEN 1..i ELSE 1..(i - 1)

\* how many of the first k links were handled to the end
CountOk(k) == Cardinality({j \in 1..k : hist[j] = "ok"})

CorruptBodies == {"zip_truncated", "zip_badmember"}

\* C1 as stated: with a cap N > 0 and more than N links, downloads are
\* attempted for the first N links and for no later one, whatever the
\* outcomes of fetch, expansion and upload.
C1_FirstNOnly ==
    (args.max_items > 0 /\ Len(links) > args.max_items) =>
        /\ Attempted \subseteq 1..args.max_items
        /\ pc = "done" => Attempted = 1..args.max_items

\* C1 amended: with a cap N > 0 a download is attempted for a link only
\* while fewer than N earlier links were handled to the end (fetched and,
\* for a zip, expanded); a run that ends with links untouched has handled
\* exactly N; when the first N links are all handled, no later link is
\* attempted, whatever the uploads returned.
C1_CapCountsHandled ==
    args.max_items > 0 =>
        /\ \A j \in Attempted : CountOk(j - 1) < args.max_items
        /\ (pc = "done" /\ Attempted # 1..Len(links)) =>
              CountOk(Len(hist)) = args.max_items
        /\ (Len(hist) >= args.max_items /\ CountOk(args.max_items) = args.max_items) =>
              Attempted \subseteq 1..args.max_items

\* C1 witness: a capped run ended with a link untouched after a failed
\* upload of the handled one
C1_Witness ==
    /\ pc = "done"
    /\ args.max_items = 1
    /\ Len(links) = 2
    /\ hist = <<"ok">>
    /\ net = {1}
    /\ \E u \in ups : u.rc # 0

\* C2 as stated: when the sweep after a successful expansion is over,
\* every CSV member just extracted has had its upload command.
C2_SweepCoversMembers ==
    (pc = "sweep" /\ sweep = {}) =>
        \A k \in 1..Len(CsvMembers) :
            \E u \in ups : u.file = BaseName(CsvMembers[k])

\* C3 as stated: a failed download_file call leaves neither the temp file
\* nor the final file, and the directory is as it was before the call
\* (read in the claim's favour: for calls in which no unlink raised).
C3_DirectoryRestored ==
    (dl = "failed" /\ ~unlinkErr) =>
        /\ prevTmp \notin DOMAIN fs
        /\ prev \notin DOMAIN fs
        /\ fs = fs0

\* C3 amended: a failed download_file call changes no file other than the
\* target's temp file, and leaves that temp file absent unless an unlink
\* of it raised; so the directory is as before the call with the stale
\* temp file removed.
C3_OnlyTempTouched ==
    dl = "failed" =>
        /\ Remove(fs, prevTmp) = Remove(fs0, prevTmp)
        /\ prevTmp \in DOMAIN fs => unlinkErr
        /\ prev # prevTmp => prev \notin DOMAIN fs

\* C3 witness: a call that found a stale temp file has failed and the
\* stale file is gone
C3_Witness ==
    /\ dl = "failed"
    /\ prevTmp \in DOMAIN fs0
    /\ prevTmp \notin DOMAIN fs
    /\ ~unlinkErr

\* C4 as stated: a file under a download's final name always holds the
\* complete body of one transfer.
C4_FinalNameComplete ==
    \A u \in Urls :
        LocalName(u) \in DOMAIN fs => fs[LocalName(u)] \in Bodies(u)

\* C5: a download_file call that finds the final file there (the earlier
\* call succeeded and nothing removed it) starts no transfer and changes
\* no file.
C5_SecondCallSkips ==
    (pc = "fetched" /\ Exists(fs0, local)) =>
        /\ i \notin net
        /\ dl = "skipped"
        /\ fs = fs0

\* C5 witness: the same link twice in one run; the first call transferred
\* the file, the second returned it
C5_Witness ==
    /\ pc = "fetched"
    /\ i = 2
    /\ links[1] = links[2]
    /\ ~IsDir(local)
    /\ hist = <<"ok">>
    /\ net = {1}
    /\ dl = "skipped"

\* C6: after the handling of a link whose zip is corrupt, no upload was
\* made for the link, the zip is still there and the loop stands at the
\* next link.
C6_CorruptSkipped ==
    (pc = "loop" /\ i > 1 /\ IsZip(prev)) =>
        /\ hist[i - 1] = "corrupt" =>
              /\ ups = {}
              /\ prev \in DOMAIN fs
              /\ fs[prev] \in CorruptBodies
        /\ (prev \in DOMAIN fs /\ fs[prev] \in CorruptBodies) =>
              /\ ups = {}
              /\ hist[i - 1] \in {"corrupt", "error"}

\* C6 witness: a truncated zip was skipped under --cleanup with a link
\* still to come
C6_Witness ==
    /\ pc = "loop"
    /\ i = 2
    /\ Len(links) = 2
    /\ hist = <<"corrupt">>
    /\ args.cleanup
    /\ fs[prev] = "zip_truncated"

\* C7 as stated: whatever fails, the process ends with exit status 0.
C7_ExitZero == pc \in Stopped => ExitStatus = 0

\* C8: once uploads were made for a link, the link counts as processed
\* and the loop goes on, whatever the uploads returned.
C8_CounterIgnoresUploads ==
    (pc = "loop" /\ i > 1 /\ ups # {}) =>
        /\ hist[i - 1] = "ok"
        /\ processed = CountOk(i - 2) + 1
        /\ processed = CountOk(i - 1)

\* C8 witness: the tool was not found for the upload of a link, and the
\* link was counted
C8_Witness ==
    /\ pc = "loop"
    /\ i = 2
    /\ processed = 1
    /\ \E u \in ups : u.rc = 2 /\ u.tool = "missing"

\* C9 as stated: with --cleanup, a zip whose extraction failed or one of
\* whose uploads returned non-zero is still there after its handling.
C9_CleanupOnlyAfterSuccess ==
    (/\ pc = "loop" /\ i > 1
     /\ args.cleanup
     /\ IsZip(prev)
     /\ hist[i - 1] # "fetch_failed"
     /\ hist[i - 1] # "ok" \/ \E u \in ups : u.rc # 0)
        => prev \in DOMAIN fs

\* C10: under --dry-run every gsutil_cp call prints its command, returns
\* 0, and neither looks the tool up nor runs it.
C10_DryRunNeverExecutes ==
    args.dry_run =>
        \A u \in ups : u.printed /\ u.rc = 0 /\ ~u.looked /\ ~u.ran

\* C10 witness: a dry-run upload made while the tool was missing
C10_Witness ==
    /\ args.dry_run
    /\ \E u \in ups : u.tool = "missing" /\ u.rc = 0

\* C11: an interrupt inside the loop ends the run with exit status 0; the
\* step that takes it changes no file and starts no transfer, extraction
\* or upload, and after it the process only exits, so finished files stay
\* and a temp file being written stays under its temp name.
C11_InterruptEndsCleanly ==
    [][ /\ pc' = "interrupted" =>
              /\ pc \in InLoop
              /\ ExitStatus' = 0
              /\ fs' = fs
              /\ <<net, ups, todo, sweep, processed>>' =
                     <<net, ups, todo, sweep, processed>>
        /\ pc = "interrupted" => (pc' = "idle" /\ fs' = fs) ]_vars

\* C11 witness: the run was interrupted during the transfer of its second
\* link; the first link's file and the second's temp file are there
C11_Witness ==
    /\ pc = "interrupted"
    /\ Len(links) = 2 /\ i = 2
    /\ hist = <<"ok">>
    /\ dl = "running"
    /\ prev \in DOMAIN fs /\ fs[prev] \in Bodies(links[1])
    /\ tmp # prev
    /\ tmp \in DOMAIN fs /\ fs[tmp] = "partial"

\* C12 as stated: when a transfer starts, a temp file left under the
\* target's temp name has been removed before the GET is answered.
C12_StaleRemovedFirst == pc = "open" => tmp \notin DOMAIN fs

\* C12 amended: when a transfer starts, a leftover temp file has been
\* removed unless its unlink raised; in that case opening it for writing
\* truncates it.  Either way the temp file holds only bytes of this
\* transfer and the file finally produced is the transfer's whole body.
C12_StaleGoneOrTruncated ==
    /\ pc = "open" =>
          (tmp \in DOMAIN fs => (unlinkErr /\ tmp \in DOMAIN fs0 /\ fs[tmp] = fs0[tmp]))
    /\ pc = "copy" => fs[tmp] = "partial"
    /\ pc = "rename" => fs[tmp] \in Bodies(url)
    /\ (pc = "fetched" /\ dl = "done") =>
          /\ fs[local] \in Bodies(url)
          /\ tmp # local => tmp \notin DOMAIN fs

\* C12 witness: a transfer that found a stale temp file has produced the
\* final file and the temp name is free
C12_Witness ==
    /\ pc = "fetched" /\ dl = "done"
    /\ tmp \in DOMAIN fs0
    /\ fs0[tmp] = "partial"
    /\ ~unlinkErr
    /\ tmp \notin DOMAIN fs
    /\ fs[local] \in Bodies(url)

\* C13 as stated: a gsutil_cp call made without dry-run while the tool is
\* missing does not run the command and returns a non-zero status that no
\* command that ran and failed returns.
C13_MissingToolDistinct ==
    \A u \in ups :
        (u.looked /\ u.tool = "missing") =>
            /\ ~u.ran
            /\ u.rc # 0
            /\ \A e \in ExitCodes \ {0} :
                   GsutilCp(u.file, FALSE, "present", e).rc # u.rc

\* the files the example archive (a/b/file1.csv, file2.CSV, notes.txt) is
\* to yield
ExampleCsv == {<<"file1", "csv">>, <<"file2", "CSV">>}

\* C14: after the expansion of the valid example archive the directory
\* holds file1.csv and file2.CSV with their whole data, at its root, and
\* every other file (but the zip and its temp file) is as it was when the
\* link's handling began: no other member was written.
C14_ExtractionResult ==
    (pc = "sweep" /\ fs[local] = "zip_valid") =>
        /\ \A n \in ExampleCsv : n \in DOMAIN fs /\ fs[n] = "csv_data"
        /\ \A n \in (DOMAIN fs \cup DOMAIN fs0) \ (ExampleCsv \cup {local, tmp}) :
               n \in DOMAIN fs /\ n \in DOMAIN fs0 /\ fs[n] = fs0[n]
        /\ <<"notes", "txt">> \notin DOMAIN fs

\* C14 witness: the expansion has overwritten a half-written file1.csv
\* left by an earlier run
C14_Witness ==
    /\ pc = "sweep" /\ fs[local] = "zip_valid"
    /\ <<"file1", "csv">> \in DOMAIN fs0
    /\ fs0[<<"file1", "csv">>] = "partial"
    /\ fs[<<"file1", "csv">>] = "csv_data"
    /\ fs[<<"file2", "CSV">>] = "csv_data"

\* C18 as stated: the path download_file returns names an entry inside
\* the downloads directory, never the directory itself, so no recursive
\* copy of the directory is requested.
C18_ReturnsFileInside ==
    /\ pc = "fetched" => ~IsDir(local)
    /\ \A u \in ups : ~u.recursive

\* C19: at every point of the loop the counter is the number of links
\* handled to the end so far; a link given up (failed fetch, corrupt
\* archive, any other exception) leaves it as it was.
C19_CounterCountsHandled ==
    /\ processed = CountOk(Len(hist))
    /\ pc \in InLoop => Len(hist) = i - 1

\* C19 witness: one link was handled and the next given up for a corrupt
\* archive; the counter is 1
C19_Witness ==
    /\ pc = "loop"
    /\ hist = <<"ok", "corrupt">>
    /\ processed = 1

\* C17 as stated: every CSV file the sweep hands to gsutil_cp holds the
\* whole data of an archive member; a CSV left half-written by an
\* extraction that failed or was interrupted is never uploaded as it is.
C17_OnlyCompleteCsvUploaded ==
    \A u \in ups : u.file \in DOMAIN fs /\ fs[u.file] = "csv_data"

\* what urljoin returns for the hrefs above, taken from running it
\* http://data.gdeltproject.org/events/a.export.zip
FullZip ==
    <<"h", "t", "t", "p", ":", "/", "/", "d", "a", "t", "a", ".", "g", "d",
      "e", "l", "t", "p", "r", "o", "j", "e", "c", "t", ".", "o", "r", "g",
      "/", "e", "v", "e", "n", "t", "s", "/", "a", ".", "e", "x", "p", "o",
      "r", "t", ".", "z", "i", "p">>
\* http://data.gdeltproject.org/events/EXPORT.CSV
FullUpper ==
    <<"h", "t", "t", "p", ":", "/", "/", "d", "a", "t", "a", ".", "g", "d",
      "e", "l", "t", "p", "r", "o", "j", "e", "c", "t", ".", "o", "r", "g",
      "/", "e", "v", "e", "n", "t", "s", "/", "E", "X", "P", "O", "R", "T",
      ".", "C", "S", "V">>
\* http://data.gdeltproject.org/x/Export
FullRooted ==
    <<"h", "t", "t", "p", ":", "/", "/", "d", "a", "t", "a", ".", "g", "d",
      "e", "l", "t", "p", "r", "o", "j", "e", "c", "t", ".", "o", "r", "g",
      "/", "x", "/", "E", "x", "p", "o", "r", "t">>

\* the link list_export_links owes for one href: none, or its absolute URL
Owed(h) ==
    CASE h = HrefZip -> <<FullZip>>
      [] h = HrefUpper -> <<FullUpper>>
      [] h = HrefRooted -> <<FullRooted>>
      [] h = HrefAbsolute -> <<HrefAbsolute>>
      [] OTHER -> <<>>

RECURSIVE OwedLinks(_)
OwedLinks(anchors) ==
    IF anchors = <<>> THEN <<>>
    ELSE OwedLinks(SubSeq(anchors, 1, Len(anchors) - 1)) \o Owed(anchors[Len(anchors)])

\* C15: for every sequence of anchor hrefs, list_export_links returns exactly
\* the hrefs containing 'export' in any mix of cases, each resolved against
\* the index page's URL, in document order and with duplicates kept; every
\* anchor has been looked at when it returns, and a page without such an
\* href gives the empty list and the run ends with status 0.
C15_LinksSelectedInOrder ==
    /\ links = OwedLinks(SubSeq(soup.anchors, 1, soup.at - 1))
    /\ pc # "listing" => soup.at = Len(soup.anchors) + 1
    /\ pc = "done" <=> (pc # "listing" /\ links = <<>>)
    /\ pc = "done" => ExitStatus = 0

\* C15 happens: a page whose first anchor lacks the word and whose next two
\* are the same href in capitals has been scanned, and both copies returned
C15_Witness ==
    /\ pc = "loop"
    /\ soup.anchors = <<HrefIndex, HrefUpper, HrefUpper>>
    /\ links = <<FullUpper, FullUpper>>

\* the prefix and the bucket as C16 has them normalized: the bucket without
\* trailing slash, the prefix empty or ending in exactly one slash
NormalizedBucket(bucket) == RStrip(bucket)
NormalizedPrefix(dest_prefix) ==
    IF dest_prefix = <<>> THEN <<>> ELSE Append(RStrip(dest_prefix), Slash)

\* C16 as stated: for every bucket, prefix and local file, the destination
\* handed to the tool is the normalized bucket, a slash, the normalized
\* prefix and the file's base name, the normalized prefix being empty for an
\* empty prefix and ending in exactly one slash otherwise.
C16_DestinationNormalized ==
    \A u \in ups : "dest" \in DOMAIN u =>
        u.dest = NormalizedBucket(args.bucket) \o <<Slash>>
                 \o NormalizedPrefix(args.dest_prefix) \o <<u.file>>

====
